---- MODULE Spec2Model ----
(***************************************************************************)
(* A model of CWangTiler (WangTiler.h / WangTiler.cpp), the generator of   *)
(* a pseudo-random rectangular array of indices into a set of 8 Wang       *)
(* tiles, and of the way CMain uses it.                                    *)
(*                                                                         *)
(* A generator instance is one element of Tilers.  Its fields m_nWidth,    *)
(* m_nHeight and m_nTile are variables indexed by the instance.  One call  *)
(* of Generate() is a sequence of steps, one per assignment to a cell of   *)
(* m_nTile; pc, ci and cj hold the position of the instance in the loops   *)
(* of Generate().  The values returned by the distributions over           *)
(* m_stdRandom are the inputs of the steps.                                *)
(***************************************************************************)
EXTENDS Integers, Sequences, FiniteSets, TLC

\* ------------------------------------------------------------------ bounds
\* Largest width and largest height of a grid.
MaxSide == 3
\* Largest number of cells of a grid (width * height).
MaxCells == 6
\* Largest number of cells of a grid when the draws of a call are recorded,
\* or when two instances run side by side.
MaxSmallCells == 4
\* Largest number of Generate() calls on one instance.
MaxGen == 2
\* Largest number of SaveBitmap() calls.
MaxSave == 4
\* Largest width and largest height of a grid when both the draws of a call
\* and the values the accessors return are recorded.
MaxReadSide == 2

\* ------------------------------------------------------- program constants
\* std::uniform_int_distribution<UINT> d(0, 7) of Generate().
TileLo == 0
TileHi == 7
\* std::uniform_int_distribution<UINT> d(0, 1) of Match().
BitLo == 0
BitHi == 1

TileIndex == TileLo..TileHi
Bit == BitLo..BitHi

\* The two generator instances of the model.
Tilers == {1, 2}

Other(t) == CHOOSE u \in Tilers : u # t

Min(a, b) == IF a < b THEN a ELSE b

\* --------------------------------------------------- C++ operators on UINT
RECURSIVE BitAnd(_, _)
BitAnd(a, b) ==
  IF a = 0 \/ b = 0 THEN 0
  ELSE ((a % 2) * (b % 2)) + 2 * BitAnd(a \div 2, b \div 2)

RECURSIVE BitXor(_, _)
BitXor(a, b) ==
  IF a = 0 THEN b
  ELSE IF b = 0 THEN a
  ELSE (((a % 2) + (b % 2)) % 2) + 2 * BitXor(a \div 2, b \div 2)

RECURSIVE BitOr(_, _)
BitOr(a, b) ==
  IF a = 0 THEN b
  ELSE IF b = 0 THEN a
  ELSE (IF (a % 2) + (b % 2) > 0 THEN 1 ELSE 0) + 2 * BitOr(a \div 2, b \div 2)

\* a << n.  Every left operand in the program is masked to one bit and
\* shifted by at most 2, so the 32 bits of a UINT never overflow.
Shl(a, n) == a * (2 ^ n)

\* ------------------------------------------------------------------- Match
\* Mutant: x and y exchanged (the left tile taken for the tile above).
Match_swapped(x, y, b) ==
  BitOr(BitOr(BitXor(BitAnd(x, 4), Shl(BitAnd(x, 1), 2)),
              BitXor(BitAnd(y, 2), Shl(BitAnd(y, 1), 1))),
        b)

\* Mutant: the expression read as if ^ bound tighter than <<, that is
\* ((y&4) ^ (y&1))<<2 | ((x&2) ^ (x&1))<<1 | b.
Match_precedence(x, y, b) ==
  BitOr(BitOr(Shl(BitXor(BitAnd(y, 4), BitAnd(y, 1)), 2),
              Shl(BitXor(BitAnd(x, 2), BitAnd(x, 1)), 1)),
        b)

\* Mutant: the parity bit of the tile above shifted one place too far.
Match_shift(x, y, b) ==
  BitOr(BitOr(BitXor(BitAnd(y, 4), Shl(BitAnd(y, 1), 3)),
              BitXor(BitAnd(x, 2), Shl(BitAnd(x, 1), 1))),
        b)

\* Mutant: the random bit left out of the result.
Match_nobit(x, y, b) ==
  BitOr(BitXor(BitAnd(y, 4), Shl(BitAnd(y, 1), 2)),
        BitXor(BitAnd(x, 2), Shl(BitAnd(x, 1), 1)))

\* CWangTiler::Match(x, y), with b the value of d(m_stdRandom):
\*   (y&4) ^ (y&1)<<2 | (x&2) ^ (x&1)<<1 | b
\* << binds tighter than ^, and ^ tighter than |.
Match(x, y, b) ==
  BitOr(BitOr(BitXor(BitAnd(y, 4), Shl(BitAnd(y, 1), 2)),
              BitXor(BitAnd(x, 2), Shl(BitAnd(x, 1), 1))),
        b)

\* --------------------------------------------------------------- the state
VARIABLES
  m_nWidth,   \* m_nWidth of each instance
  m_nHeight,  \* m_nHeight of each instance
  m_nTile,    \* m_nTile of each instance: row i -> column j -> index
  pc,         \* where each instance is: "idle", or inside Generate() at
              \* "row0", "col0", "inner"; "crashed" after undefined behaviour
  ci, cj,     \* the loop variables i and j of Generate()
  nGen,       \* number of completed Generate() calls
  ctorW,      \* the w the instance was constructed with
  ctorH,      \* the h the instance was constructed with
  order,      \* the cells assigned so far by the current (or last) call
  ret,        \* the value returned by the last accessor call
  ub,         \* the instance has written outside its grid
  logging,    \* whether the draws of a call are recorded in drawn
  drawn,      \* the draws consumed so far by the current (or last) call
  pending,    \* instances that still have to finish the shared call
  feed,       \* draws of the shared stream an instance has yet to consume
  startDiff,  \* the two grids differed when the shared call began
  synced,     \* both instances finished a shared call, none began since
  everSolo,   \* some call took draws not shared with the other instance
  call,       \* arguments and result of a single Match() evaluation
  g_pMain,    \* the CMain object: its tiles, its menu, its last LoadTileSet()
  save        \* SaveBitmap(): its static n, and what its calls offered and did

vars == <<m_nWidth, m_nHeight, m_nTile, pc, ci, cj, nGen, ctorW, ctorH,
          order, ret, ub, logging, drawn, pending, feed, startDiff, synced,
          everSolo, call, g_pMain, save>>

tilerVars == <<m_nWidth, m_nHeight, m_nTile, pc, ci, cj, nGen, ctorW, ctorH,
               order, ret, ub, logging, drawn, pending, feed, startDiff,
               synced, everSolo, g_pMain, save>>

NoRet == [kind |-> "none", val |-> 0]
NoCall == [x |-> 0, y |-> 0, b |-> 0, state |-> "none", z |-> 0]

\* CMain before its constructor body runs: no tile array, no tile, no menu
\* item checked, nothing drawn, LoadTileSet() never called.
NoMain ==
  [phase |-> "start", m_nNumTiles |-> 0, m_pTile |-> <<>>, checked |-> {},
   shown |-> {}, hr |-> "none", idm |-> "none", lastOk |-> "none",
   gen0 |-> 0]

\* SaveBitmap() never called: static int n = 0.  names holds the default
\* file names the calls gave their dialog box, saved counts the images
\* written, name and savedBefore are those of the last call.
NoSave ==
  [n |-> 0, saved |-> 0, names |-> <<>>, hr |-> "none", outcome |-> "none",
   name |-> [stem |-> "none", digits |-> <<>>], savedBefore |-> 0]

\* ------------------------------------------------------------- constructor
\* Mutant: the zeroing loop starts at j = 1, and column 0 keeps what the
\* allocation held, here 5.
NewTiles_skipfirst(w, h) ==
  [i \in 0..(h - 1) |-> [j \in 0..(w - 1) |-> IF j = 0 THEN 5 ELSE 0]]

\* Mutant: the cells are set to 1, a tile whose right colour differs from
\* its left colour.
NewTiles_ones(w, h) == [i \in 0..(h - 1) |-> [j \in 0..(w - 1) |-> 1]]

\* The array the constructor allocates: h rows of w cells, all 0.
NewTiles(w, h) == [i \in 0..(h - 1) |-> [j \in 0..(w - 1) |-> 0]]

\* Grid sizes: sides in lo..maxSide, at most maxCells cells.
Dims(lo, maxSide, maxCells) ==
  {d \in (lo..maxSide) \X (lo..maxSide) : d[1] * d[2] <= maxCells}

\* CWangTiler::CWangTiler(w, h), for both instances.
Construct(w, h) ==
  /\ m_nWidth = [t \in Tilers |-> w]
  /\ m_nHeight = [t \in Tilers |-> h]
  /\ m_nTile = [t \in Tilers |-> NewTiles(w, h)]
  /\ ctorW = [t \in Tilers |-> w]
  /\ ctorH = [t \in Tilers |-> h]
  /\ pc = [t \in Tilers |-> "idle"]
  /\ ci = [t \in Tilers |-> 0]
  /\ cj = [t \in Tilers |-> 0]
  /\ nGen = [t \in Tilers |-> 0]
  /\ order = [t \in Tilers |-> <<>>]
  /\ ret = [t \in Tilers |-> NoRet]
  /\ ub = [t \in Tilers |-> FALSE]
  /\ drawn = [t \in Tilers |-> <<>>]
  /\ pending = {}
  /\ feed = [t \in Tilers |-> <<>>]
  /\ startDiff = FALSE
  /\ synced = FALSE
  /\ everSolo = FALSE

Init ==
  /\ \E d \in Dims(1, MaxSide, MaxCells) : Construct(d[1], d[2])
  /\ logging = FALSE
  /\ call = NoCall
  /\ g_pMain = NoMain
  /\ save = NoSave

\* ------------------------------------------------------------- loop control
\* Mutant: the outer loop stops one row early (i < m_nHeight - 1).
LoopOuter_short(w, h, i) ==
  IF i < h - 1 THEN [pc |-> "col0", i |-> i, j |-> 0]
  ELSE [pc |-> "idle", i |-> 0, j |-> 0]

\* Mutant: the outer loop goes back to row 1 instead of on to row i.
LoopOuter_restart(w, h, i) ==
  IF i < h THEN [pc |-> "col0", i |-> 1, j |-> 0]
  ELSE [pc |-> "idle", i |-> 0, j |-> 0]

\* for(size_t i=1; i<m_nHeight; i++): the test of the outer loop at i.
LoopOuter(w, h, i) ==
  IF i < h THEN [pc |-> "col0", i |-> i, j |-> 0]
  ELSE [pc |-> "idle", i |-> 0, j |-> 0]

\* for(size_t j=1; j<m_nWidth; j++) of row 0: the test at j.
LoopRow0(w, h, j) ==
  IF j < w THEN [pc |-> "row0", i |-> 0, j |-> j]
  ELSE LoopOuter(w, h, 1)

\* Mutant: the inner loop of row i runs while j <= m_nWidth.
LoopInner_inclusive(w, h, i, j) ==
  IF j <= w THEN [pc |-> "inner", i |-> i, j |-> j]
  ELSE LoopOuter(w, h, i + 1)

\* for(size_t j=1; j<m_nWidth; j++) of row i: the test at j.
LoopInner(w, h, i, j) ==
  IF j < w THEN [pc |-> "inner", i |-> i, j |-> j]
  ELSE LoopOuter(w, h, i + 1)

\* ------------------------------------------------------------ random stream
\* The instance t takes the values ds, in this order, from its m_stdRandom;
\* log holds the values the call took before.  An instance of a shared call
\* takes the values of the shared stream: those the other instance already
\* took and it did not, then fresh ones, which the other instance will take
\* in its turn.
Draws(t, log, ds) ==
  /\ drawn' = IF logging THEN [drawn EXCEPT ![t] = log \o ds] ELSE drawn
  /\ IF t \in pending
     THEN LET mine == feed[t]
              n == Min(Len(mine), Len(ds))
          IN /\ \A k \in 1..n : ds[k] = mine[k]
             /\ feed' = [u \in Tilers |->
                           IF u = t THEN SubSeq(mine, n + 1, Len(mine))
                           ELSE feed[u] \o SubSeq(ds, n + 1, Len(ds))]
     ELSE UNCHANGED feed

\* ---------------------------------------------------------------- Generate
\* m_nTile[i][j] = v, then on to the position pos of the loops; the call
\* returns when pos is "idle".  ord holds the cells the call assigned before.
Assign(t, ord, i, j, v, pos) ==
  /\ m_nTile' = [m_nTile EXCEPT ![t][i][j] = v]
  /\ order' = [order EXCEPT ![t] = Append(ord, <<i, j>>)]
  /\ pc' = [pc EXCEPT ![t] = pos.pc]
  /\ ci' = [ci EXCEPT ![t] = pos.i]
  /\ cj' = [cj EXCEPT ![t] = pos.j]
  /\ nGen' = [nGen EXCEPT ![t] = IF pos.pc = "idle" THEN @ + 1 ELSE @]
  /\ pending' = IF pos.pc = "idle" THEN pending \ {t} ELSE pending
  /\ synced' = (pos.pc = "idle" /\ t \in pending /\ pending \ {t} = {})
  /\ UNCHANGED <<m_nWidth, m_nHeight, ctorW, ctorH, ub, logging, startDiff,
                 call, g_pMain, save>>

\* Mutant: the origin treated like a cell with neighbours, both of them
\* drawn: m_nTile[0][0] = Match(d(m_stdRandom), d(m_stdRandom)).
GenerateOrigin_matched(t) ==
  /\ pc[t] = "idle"
  /\ nGen[t] < MaxGen
  /\ pending = {} \/ t \in pending
  /\ 0 < m_nHeight[t] /\ 0 < m_nWidth[t]
  /\ \E f \in TileIndex, g \in TileIndex, b \in Bit :
       /\ Draws(t, <<>>, <<f, g, b>>)
       /\ Assign(t, <<>>, 0, 0, Match(f, g, b),
                 LoopRow0(m_nWidth[t], m_nHeight[t], 1))
  /\ everSolo' = (everSolo \/ t \notin pending)
  /\ ret' = [ret EXCEPT ![t] = NoRet]

\* Mutant: the distribution of the first draw is d(0, 6), so that the index
\* 7 is never given to the origin.
GenerateOrigin_short(t) ==
  /\ pc[t] = "idle"
  /\ nGen[t] < MaxGen
  /\ pending = {} \/ t \in pending
  /\ 0 < m_nHeight[t] /\ 0 < m_nWidth[t]
  /\ \E v \in TileLo..(TileHi - 1) :
       /\ Draws(t, <<>>, <<v>>)
       /\ Assign(t, <<>>, 0, 0, v, LoopRow0(m_nWidth[t], m_nHeight[t], 1))
  /\ everSolo' = (everSolo \/ t \notin pending)
  /\ ret' = [ret EXCEPT ![t] = NoRet]

\* Generate() is entered: m_nTile[0][0] = d(m_stdRandom).
GenerateOrigin(t) ==
  /\ pc[t] = "idle"
  /\ nGen[t] < MaxGen
  /\ pending = {} \/ t \in pending
  /\ 0 < m_nHeight[t] /\ 0 < m_nWidth[t]
  /\ \E v \in TileIndex :
       /\ Draws(t, <<>>, <<v>>)
       /\ Assign(t, <<>>, 0, 0, v, LoopRow0(m_nWidth[t], m_nHeight[t], 1))
  /\ everSolo' = (everSolo \/ t \notin pending)
  /\ ret' = [ret EXCEPT ![t] = NoRet]

\* Mutant: row 0 treated like the other rows, Match(m_nTile[0][j - 1],
\* m_nTile[-1][j]): no index is drawn and the tile above is read outside the
\* array, an indeterminate value g.
GenerateRow0_outside(t) ==
  /\ pc[t] = "row0"
  /\ \E g \in TileIndex, b \in Bit :
       /\ Draws(t, drawn[t], <<b>>)
       /\ Assign(t, order[t], 0, cj[t],
                 Match(m_nTile[t][0][cj[t] - 1], g, b),
                 LoopRow0(m_nWidth[t], m_nHeight[t], cj[t] + 1))
  /\ UNCHANGED <<ret, everSolo>>

\* Mutant: the bit of Match() drawn before the index that stands for the
\* tile above.
GenerateRow0_bitfirst(t) ==
  /\ pc[t] = "row0"
  /\ \E f \in TileIndex, b \in Bit :
       /\ Draws(t, drawn[t], <<b, f>>)
       /\ Assign(t, order[t], 0, cj[t],
                 Match(m_nTile[t][0][cj[t] - 1], f, b),
                 LoopRow0(m_nWidth[t], m_nHeight[t], cj[t] + 1))
  /\ UNCHANGED <<ret, everSolo>>

\* Mutant: the arguments of Match exchanged in row 0,
\* Match(d(m_stdRandom), m_nTile[0][j - 1]).
GenerateRow0_swapped(t) ==
  /\ pc[t] = "row0"
  /\ \E f \in TileIndex, b \in Bit :
       /\ Draws(t, drawn[t], <<f, b>>)
       /\ Assign(t, order[t], 0, cj[t],
                 Match(f, m_nTile[t][0][cj[t] - 1], b),
                 LoopRow0(m_nWidth[t], m_nHeight[t], cj[t] + 1))
  /\ UNCHANGED <<ret, everSolo>>

\* m_nTile[0][j] = Match(m_nTile[0][j - 1], d(m_stdRandom)): the argument
\* d(m_stdRandom) is evaluated before Match() is entered and draws its bit.
GenerateRow0(t) ==
  /\ pc[t] = "row0"
  /\ \E f \in TileIndex, b \in Bit :
       /\ Draws(t, drawn[t], <<f, b>>)
       /\ Assign(t, order[t], 0, cj[t],
                 Match(m_nTile[t][0][cj[t] - 1], f, b),
                 LoopRow0(m_nWidth[t], m_nHeight[t], cj[t] + 1))
  /\ UNCHANGED <<ret, everSolo>>

\* Mutant: the missing left neighbour of a cell of column 0 is the fixed
\* index 0, Match(0, m_nTile[i - 1][0]).
GenerateCol0_default(t) ==
  /\ pc[t] = "col0"
  /\ \E b \in Bit :
       /\ Draws(t, drawn[t], <<b>>)
       /\ Assign(t, order[t], ci[t], 0,
                 Match(0, m_nTile[t][ci[t] - 1][0], b),
                 LoopInner(m_nWidth[t], m_nHeight[t], ci[t], 1))
  /\ UNCHANGED <<ret, everSolo>>

\* m_nTile[i][0] = Match(d(m_stdRandom), m_nTile[i - 1][0]).
GenerateCol0(t) ==
  /\ pc[t] = "col0"
  /\ \E f \in TileIndex, b \in Bit :
       /\ Draws(t, drawn[t], <<f, b>>)
       /\ Assign(t, order[t], ci[t], 0,
                 Match(f, m_nTile[t][ci[t] - 1][0], b),
                 LoopInner(m_nWidth[t], m_nHeight[t], ci[t], 1))
  /\ UNCHANGED <<ret, everSolo>>

\* Mutant: the tile above taken from the column to the left,
\* Match(m_nTile[i][j - 1], m_nTile[i - 1][j - 1]).
GenerateInner_diagonal(t) ==
  /\ pc[t] = "inner"
  /\ \E b \in Bit :
       /\ Draws(t, drawn[t], <<b>>)
       /\ Assign(t, order[t], ci[t], cj[t],
                 Match(m_nTile[t][ci[t]][cj[t] - 1],
                       m_nTile[t][ci[t] - 1][cj[t] - 1], b),
                 LoopInner(m_nWidth[t], m_nHeight[t], ci[t], cj[t] + 1))
  /\ UNCHANGED <<ret, everSolo>>

\* Mutant: the cell's own previous content taken for the tile above,
\* Match(m_nTile[i][j - 1], m_nTile[i][j]).
GenerateInner_stale(t) ==
  /\ pc[t] = "inner"
  /\ \E b \in Bit :
       /\ Draws(t, drawn[t], <<b>>)
       /\ Assign(t, order[t], ci[t], cj[t],
                 Match(m_nTile[t][ci[t]][cj[t] - 1],
                       m_nTile[t][ci[t]][cj[t]], b),
                 LoopInner(m_nWidth[t], m_nHeight[t], ci[t], cj[t] + 1))
  /\ UNCHANGED <<ret, everSolo>>

\* Mutant: an index is drawn for an inner cell too, and not used.
GenerateInner_extradraw(t) ==
  /\ pc[t] = "inner"
  /\ \E f \in TileIndex, b \in Bit :
       /\ Draws(t, drawn[t], <<f, b>>)
       /\ Assign(t, order[t], ci[t], cj[t],
                 Match(m_nTile[t][ci[t]][cj[t] - 1],
                       m_nTile[t][ci[t] - 1][cj[t]], b),
                 LoopInner(m_nWidth[t], m_nHeight[t], ci[t], cj[t] + 1))
  /\ UNCHANGED <<ret, everSolo>>

\* m_nTile[i][j] = Match(m_nTile[i][j - 1], m_nTile[i - 1][j]).
GenerateInner(t) ==
  /\ pc[t] = "inner"
  /\ \E b \in Bit :
       /\ Draws(t, drawn[t], <<b>>)
       /\ Assign(t, order[t], ci[t], cj[t],
                 Match(m_nTile[t][ci[t]][cj[t] - 1],
                       m_nTile[t][ci[t] - 1][cj[t]], b),
                 LoopInner(m_nWidth[t], m_nHeight[t], ci[t], cj[t] + 1))
  /\ UNCHANGED <<ret, everSolo>>

\* Generate() on an instance without a cell (0,0): m_nTile[0][0] is written
\* outside the allocation, which is undefined behaviour.  The process may
\* stop there or go on; the loops then either do not run or write outside
\* the allocation again.
GenerateOutside(t) ==
  /\ pc[t] = "idle"
  /\ nGen[t] < MaxGen
  /\ pending = {}
  /\ ~(0 < m_nHeight[t] /\ 0 < m_nWidth[t])
  /\ ub' = [ub EXCEPT ![t] = TRUE]
  /\ \E outcome \in {"idle", "crashed"} :
       /\ pc' = [pc EXCEPT ![t] = outcome]
       /\ nGen' = [nGen EXCEPT ![t] = IF outcome = "idle" THEN @ + 1 ELSE @]
  /\ UNCHANGED <<m_nWidth, m_nHeight, m_nTile, ci, cj, ctorW, ctorH, order,
                 ret, logging, drawn, pending, feed, startDiff, synced,
                 everSolo, call, g_pMain, save>>

\* --------------------------------------------------------------- accessors
\* Accessors run between calls of Generate(): the program is single-threaded
\* and Generate() returns before anything else runs.
\* Mutant: GetWidth() returns m_nHeight.
GetWidth_height(t) ==
  /\ pc[t] = "idle"
  /\ ret' = [ret EXCEPT ![t] = [kind |-> "width", val |-> m_nHeight[t]]]
  /\ UNCHANGED <<m_nWidth, m_nHeight, m_nTile, pc, ci, cj, nGen, ctorW,
                 ctorH, order, ub, logging, drawn, pending, feed, startDiff,
                 synced, everSolo, call, g_pMain, save>>

GetWidth(t) ==
  /\ pc[t] = "idle"
  /\ ret' = [ret EXCEPT ![t] = [kind |-> "width", val |-> m_nWidth[t]]]
  /\ UNCHANGED <<m_nWidth, m_nHeight, m_nTile, pc, ci, cj, nGen, ctorW,
                 ctorH, order, ub, logging, drawn, pending, feed, startDiff,
                 synced, everSolo, call, g_pMain, save>>

GetHeight(t) ==
  /\ pc[t] = "idle"
  /\ ret' = [ret EXCEPT ![t] = [kind |-> "height", val |-> m_nHeight[t]]]
  /\ UNCHANGED <<m_nWidth, m_nHeight, m_nTile, pc, ci, cj, nGen, ctorW,
                 ctorH, order, ub, logging, drawn, pending, feed, startDiff,
                 synced, everSolo, call, g_pMain, save>>

\* Mutant: operator()(i, j) returns the cell to the left, m_nTile[i][j - 1].
OperatorAt_offbyone(t) ==
  /\ pc[t] = "idle"
  /\ \E i \in 0..(m_nHeight[t] - 1), j \in 0..(m_nWidth[t] - 1) :
       ret' = [ret EXCEPT ![t] =
                 [kind |-> "tile", i |-> i, j |-> j,
                  val |-> m_nTile[t][i][IF j > 0 THEN j - 1 ELSE j]]]
  /\ UNCHANGED <<m_nWidth, m_nHeight, m_nTile, pc, ci, cj, nGen, ctorW,
                 ctorH, order, ub, logging, drawn, pending, feed, startDiff,
                 synced, everSolo, call, g_pMain, save>>

\* operator()(i, j): return m_nTile[i][j], called with i < GetHeight() and
\* j < GetWidth() as CMain::Draw() does.
OperatorAt(t) ==
  /\ pc[t] = "idle"
  /\ \E i \in 0..(m_nHeight[t] - 1), j \in 0..(m_nWidth[t] - 1) :
       ret' = [ret EXCEPT ![t] =
                 [kind |-> "tile", i |-> i, j |-> j, val |-> m_nTile[t][i][j]]]
  /\ UNCHANGED <<m_nWidth, m_nHeight, m_nTile, pc, ci, cj, nGen, ctorW,
                 ctorH, order, ub, logging, drawn, pending, feed, startDiff,
                 synced, everSolo, call, g_pMain, save>>

\* The cells the statement Generate() is at reads, and the cell it writes:
\* m_nTile[0][j - 1] for m_nTile[0][j], m_nTile[i - 1][0] for m_nTile[i][0],
\* m_nTile[i][j - 1] and m_nTile[i - 1][j] for m_nTile[i][j].
CellsRead(t) ==
  IF pc[t] = "row0" THEN {<<0, cj[t] - 1>>}
  ELSE IF pc[t] = "col0" THEN {<<ci[t] - 1, 0>>}
  ELSE IF pc[t] = "inner" THEN {<<ci[t], cj[t] - 1>>, <<ci[t] - 1, cj[t]>>}
  ELSE {}

CellWritten(t) ==
  IF pc[t] = "row0" THEN {<<0, cj[t]>>}
  ELSE IF pc[t] = "col0" THEN {<<ci[t], 0>>}
  ELSE IF pc[t] = "inner" THEN {<<ci[t], cj[t]>>}
  ELSE {}

\* ------------------------------------------------------------ one instance
Next ==
  \/ GenerateOrigin(1)
  \/ GenerateRow0(1)
  \/ GenerateCol0(1)
  \/ GenerateInner(1)
  \/ GetWidth(1)
  \/ GetHeight(1)

Spec == Init /\ [][Next]_vars

\* ------------------------------------- one instance, its draws recorded
InitLog ==
  /\ \E d \in Dims(1, MaxSide, MaxSmallCells) : Construct(d[1], d[2])
  /\ logging = TRUE
  /\ call = NoCall
  /\ g_pMain = NoMain
  /\ save = NoSave

NextLog ==
  \/ GenerateOrigin(1)
  \/ GenerateRow0(1)
  \/ GenerateCol0(1)
  \/ GenerateInner(1)

SpecLog == InitLog /\ [][NextLog]_vars

\* ------------------- one instance read between calls, draws recorded
InitRead ==
  /\ \E d \in Dims(1, MaxReadSide, MaxSmallCells) : Construct(d[1], d[2])
  /\ logging = TRUE
  /\ call = NoCall
  /\ g_pMain = NoMain
  /\ save = NoSave

NextRead ==
  \/ GenerateOrigin(1)
  \/ GenerateRow0(1)
  \/ GenerateCol0(1)
  \/ GenerateInner(1)
  \/ OperatorAt(1)
  \/ GetWidth(1)
  \/ GetHeight(1)

SpecRead == InitRead /\ [][NextRead]_vars

\* ------------------------- one instance, Generate() running to its end
InitLive ==
  /\ \E d \in Dims(1, MaxSide, MaxSmallCells) : Construct(d[1], d[2])
  /\ logging = FALSE
  /\ call = NoCall
  /\ g_pMain = NoMain
  /\ save = NoSave

\* A statement of Generate() after the first.
GenerateStep(t) == GenerateRow0(t) \/ GenerateCol0(t) \/ GenerateInner(t)

NextLive ==
  \/ GenerateOrigin(1)
  \/ GenerateRow0(1)
  \/ GenerateCol0(1)
  \/ GenerateInner(1)

\* Generate() is straight sequential code on the only thread of the program:
\* once entered, it runs its next statement.  Nothing obliges the caller
\* to enter it.
SpecLive == InitLive /\ [][NextLive]_vars /\ WF_vars(GenerateStep(1))

\* ------------------------------------------- two instances, one stream
\* Both instances are about to run Generate(), fed the same draws.
ShareBegin ==
  /\ pending = {}
  /\ \A t \in Tilers : pc[t] = "idle" /\ nGen[t] < MaxGen
  /\ pending' = Tilers
  /\ startDiff' = (m_nTile[1] # m_nTile[2])
  /\ synced' = FALSE
  /\ UNCHANGED <<m_nWidth, m_nHeight, m_nTile, pc, ci, cj, nGen, ctorW,
                 ctorH, order, ret, ub, logging, drawn, feed, everSolo,
                 call, g_pMain, save>>

InitPair ==
  /\ \E d \in Dims(1, MaxSide, MaxSmallCells) : Construct(d[1], d[2])
  /\ logging = FALSE
  /\ call = NoCall
  /\ g_pMain = NoMain
  /\ save = NoSave

\* Instance 1 may have been used on its own, with draws of its own, before
\* instance 2 is used for the first time; from then on the two take the
\* same draws.  The two instances have no state in common, so the order of
\* their steps does not matter: instance 1 takes the draws of the shared
\* stream first, one step at a time, and instance 2 takes them next.
Turn(t) ==
  \/ t \in pending /\ (t = 1 => feed[2] = <<>>)
  \/ pending = {} /\ t = 1 /\ nGen[2] = 0

NextPair ==
  \/ ShareBegin
  \/ \E t \in Tilers :
       /\ Turn(t)
       /\ \/ GenerateOrigin(t)
          \/ GenerateRow0(t)
          \/ GenerateCol0(t)
          \/ GenerateInner(t)
       /\ feed'[1] = <<>>

SpecPair == InitPair /\ [][NextPair]_vars

\* ------------------------------- construction with any size_t arguments
InitCtor ==
  /\ \E d \in Dims(0, MaxSide, MaxSmallCells) : Construct(d[1], d[2])
  /\ logging = FALSE
  /\ call = NoCall
  /\ g_pMain = NoMain
  /\ save = NoSave

NextCtor ==
  \/ GenerateOrigin(1)
  \/ GenerateRow0(1)
  \/ GenerateCol0(1)
  \/ GenerateInner(1)
  \/ GenerateOutside(1)
  \/ GetWidth(1)
  \/ GetHeight(1)

SpecCtor == InitCtor /\ [][NextCtor]_vars

\* ----------------------------------------------------- Match() on its own
InitMatch ==
  /\ Construct(1, 1)
  /\ logging = FALSE
  /\ call \in [x : TileIndex, y : TileIndex, b : Bit, state : {"called"},
               z : {0}]
  /\ g_pMain = NoMain
  /\ save = NoSave

\* Match(x, y) returns, its distribution having given b.
MatchReturn ==
  /\ call.state = "called"
  /\ call' = [call EXCEPT !.state = "returned",
                          !.z = Match(call.x, call.y, call.b)]
  /\ UNCHANGED tilerVars

NextMatch == MatchReturn

SpecMatch == InitMatch /\ [][NextMatch]_vars

\* ------------------------------------- Generate() with the draws chosen
\* The runs of Generate() whose draws give each cell the index a grid fixed
\* beforehand has there: call.grid is that grid, any grid over 0..7 of the
\* size of the instance.
InitGoal ==
  /\ \E d \in Dims(1, MaxSide, MaxSmallCells) :
       /\ Construct(d[1], d[2])
       /\ call \in [x : {0}, y : {0}, b : {0}, z : {0}, state : {"goal"},
                    grid : [0..(d[2] - 1) -> [0..(d[1] - 1) -> TileIndex]]]
  /\ logging = FALSE
  /\ g_pMain = NoMain
  /\ save = NoSave

\* The cell the statement just executed has assigned holds the index of
\* call.grid.
OnGoal ==
  LET c == order[1][Len(order[1])]
  IN m_nTile[1][c[1]][c[2]] = call.grid[c[1]][c[2]]

NextGoal ==
  \/ GenerateOrigin(1) /\ OnGoal'
  \/ GenerateRow0(1) /\ OnGoal'
  \/ GenerateCol0(1) /\ OnGoal'
  \/ GenerateInner(1) /\ OnGoal'

SpecGoal == InitGoal /\ [][NextGoal]_vars

\* ------------------------------- RandomTile() of the CRandom-based version
\* CWangTiler::RandomTile(x, y), with b the value of m_cRandom.randn(0, 1):
\*   (x&4) ^ (x&1)<<2 | ((y&2) ^ (y&1)<<1) | b
RandomTile(x, y, b) ==
  BitOr(BitOr(BitXor(BitAnd(x, 4), Shl(BitAnd(x, 1), 2)),
              BitXor(BitAnd(y, 2), Shl(BitAnd(y, 1), 1))),
        b)

\* RandomTile(x, y) returns, randn(0, 1) having given b.
RandomTileReturn ==
  /\ call.state = "called"
  /\ call' = [call EXCEPT !.state = "returned",
                          !.z = RandomTile(call.x, call.y, call.b)]
  /\ UNCHANGED tilerVars

NextRandomTile == RandomTileReturn

SpecRandomTile == InitMatch /\ [][NextRandomTile]_vars

\* ------------------------------------------------------------------- CMain
\* The number of tiles both callers of LoadTileSet() pass for n.
NumTiles == 8

\* The items CreateMenus() puts in the Tileset menu, which are the cases of
\* the switch in LoadTileSet() and the items it unchecks.
TilesetItems ==
  {"IDM_TILESET_DEFAULT", "IDM_TILESET_FLOWER", "IDM_TILESET_MUD",
   "IDM_TILESET_GRASS"}

\* Mutant: the checkmarks are set before the tiles are loaded, whether or
\* not the load succeeds.
LoadTileSet_checkfirst(m, idm, n, fail) ==
  LET m1 == IF m.m_nNumTiles # n
            THEN [m EXCEPT !.m_pTile = [i \in 0..(n - 1) |-> "nullptr"],
                           !.m_nNumTiles = n]
            ELSE m
      m2 == [m1 EXCEPT !.checked = (@ \ TilesetItems) \cup {idm}]
  IN IF fail < n
     THEN [m2 EXCEPT !.hr = "E_FAIL", !.idm = idm]
     ELSE [m2 EXCEPT !.m_pTile = [j \in 0..(n - 1) |-> idm],
                     !.hr = "S_OK", !.idm = idm, !.lastOk = idm]

\* Mutant: each image goes to m_pTile as soon as it is loaded, so a load
\* that fails leaves the images loaded before the failure in m_pTile.
LoadTileSet_inplace(m, idm, n, fail) ==
  LET m1 == IF m.m_nNumTiles # n
            THEN [m EXCEPT !.m_pTile = [i \in 0..(n - 1) |-> "nullptr"],
                           !.m_nNumTiles = n]
            ELSE m
  IN IF fail < n
     THEN [m1 EXCEPT !.m_pTile = [j \in 0..(n - 1) |->
                                    IF j < fail THEN idm ELSE m1.m_pTile[j]],
                     !.hr = "E_FAIL", !.idm = idm]
     ELSE [m1 EXCEPT !.m_pTile = [j \in 0..(n - 1) |-> idm],
                     !.checked = (@ \ TilesetItems) \cup {idm},
                     !.hr = "S_OK", !.idm = idm, !.lastOk = idm]

\* CMain::LoadTileSet(idm, n) on the CMain m; fail is the number of the
\* first tile image that does not load, n when all of them load.  When n
\* differs from m_nNumTiles the tiles are deleted and the array is replaced
\* by one of n null pointers first.  The images go to temp; on an error the
\* images loaded so far are deleted, otherwise they replace those of
\* m_pTile, the four items are unchecked and idm is checked.
LoadTileSet(m, idm, n, fail) ==
  LET m1 == IF m.m_nNumTiles # n
            THEN [m EXCEPT !.m_pTile = [i \in 0..(n - 1) |-> "nullptr"],
                           !.m_nNumTiles = n]
            ELSE m
  IN IF fail < n
     THEN [m1 EXCEPT !.hr = "E_FAIL", !.idm = idm]
     ELSE [m1 EXCEPT !.m_pTile = [j \in 0..(n - 1) |-> idm],
                     !.checked = (@ \ TilesetItems) \cup {idm},
                     !.hr = "S_OK", !.idm = idm, !.lastOk = idm]

\* CMain::Draw(): each cell of the grid is drawn with the tile m_pTile holds
\* for its index; shown is the set of tile sets the drawn tiles belong to.
Draw(m) ==
  [m EXCEPT !.shown =
     {m.m_pTile[m_nTile[1][i][j]] :
        i \in 0..(m_nHeight[1] - 1), j \in 0..(m_nWidth[1] - 1)}]

\* WM_CREATE, CMain::CMain() up to its call of Generate(): the default tile
\* set is loaded, and the application exits if it is not.
CMainCtor ==
  /\ g_pMain.phase = "start"
  /\ \E fail \in 0..NumTiles :
       LET m == LoadTileSet(g_pMain, "IDM_TILESET_DEFAULT", NumTiles, fail)
       IN g_pMain' = IF m.hr = "E_FAIL" THEN [m EXCEPT !.phase = "exited"]
                     ELSE [m EXCEPT !.phase = "generate", !.gen0 = nGen[1]]
  /\ UNCHANGED <<m_nWidth, m_nHeight, m_nTile, pc, ci, cj, nGen, ctorW,
                 ctorH, order, ret, ub, logging, drawn, pending, feed,
                 startDiff, synced, everSolo, call, save>>

\* Mutant: the Tileset branch replaces the Wang tiler by a new one before
\* it draws.
TilesetCommand_newtiler ==
  /\ g_pMain.phase = "running"
  /\ \E idm \in TilesetItems, fail \in 0..NumTiles :
       g_pMain' = Draw(LoadTileSet(g_pMain, idm, NumTiles, fail))
  /\ m_nTile' = [m_nTile EXCEPT ![1] = NewTiles(m_nWidth[1], m_nHeight[1])]
  /\ UNCHANGED <<m_nWidth, m_nHeight, pc, ci, cj, nGen, ctorW,
                 ctorH, order, ret, ub, logging, drawn, pending, feed,
                 startDiff, synced, everSolo, call, save>>

\* WM_COMMAND with the identifier of an item of the Tileset menu:
\* LoadTileSet(nMenuId, 8), then Draw().
TilesetCommand ==
  /\ g_pMain.phase = "running"
  /\ \E idm \in TilesetItems, fail \in 0..NumTiles :
       g_pMain' = Draw(LoadTileSet(g_pMain, idm, NumTiles, fail))
  /\ UNCHANGED <<m_nWidth, m_nHeight, m_nTile, pc, ci, cj, nGen, ctorW,
                 ctorH, order, ret, ub, logging, drawn, pending, feed,
                 startDiff, synced, everSolo, call, save>>

\* WM_COMMAND with IDM_FILE_GENERATE: CMain::Generate() is entered.
FileGenerate ==
  /\ g_pMain.phase = "running"
  /\ nGen[1] < MaxGen
  /\ g_pMain' = [g_pMain EXCEPT !.phase = "generate", !.gen0 = nGen[1]]
  /\ UNCHANGED <<m_nWidth, m_nHeight, m_nTile, pc, ci, cj, nGen, ctorW,
                 ctorH, order, ret, ub, logging, drawn, pending, feed,
                 startDiff, synced, everSolo, call, save>>

\* m_pWangTiler->Generate() has returned: Draw(), and the handler (or the
\* constructor) returns.
GenerateDraw ==
  /\ g_pMain.phase = "generate"
  /\ pc[1] = "idle" /\ nGen[1] = g_pMain.gen0 + 1
  /\ g_pMain' = [Draw(g_pMain) EXCEPT !.phase = "running"]
  /\ UNCHANGED <<m_nWidth, m_nHeight, m_nTile, pc, ci, cj, nGen, ctorW,
                 ctorH, order, ret, ub, logging, drawn, pending, feed,
                 startDiff, synced, everSolo, call, save>>

\* m_pWangTiler = new CWangTiler(16, 16), on a smaller grid.
InitMain ==
  /\ \E d \in Dims(1, MaxReadSide, MaxSmallCells) : Construct(d[1], d[2])
  /\ logging = FALSE
  /\ call = NoCall
  /\ g_pMain = NoMain
  /\ save = NoSave

\* The window procedure handles one message at a time: inside Generate()
\* no other handler runs.
NextMain ==
  \/ CMainCtor
  \/ TilesetCommand
  \/ FileGenerate
  \/ /\ g_pMain.phase = "generate" /\ nGen[1] = g_pMain.gen0
     /\ \/ GenerateOrigin(1)
        \/ GenerateRow0(1)
        \/ GenerateCol0(1)
        \/ GenerateInner(1)
  \/ GenerateDraw

SpecMain == InitMain /\ [][NextMain]_vars

\* -------------------------------------------------------------- SaveBitmap
\* std::to_wstring(k) for k >= 0: the decimal digits of k.
RECURSIVE ToWString(_)
ToWString(k) ==
  IF k < 10 THEN <<k>> ELSE Append(ToWString(k \div 10), k % 10)

\* L"Image" + std::to_wstring(k), the name given to SetFileName().
DefaultName(k) == [stem |-> "Image", digits |-> ToWString(k)]

\* No name: the call returned before SetFileName().
NoName == [stem |-> "none", digits |-> <<>>]

\* What can happen in a call: CoCreateInstance() fails; Show() fails, as it
\* does when the user cancels; GetResult(), GetDisplayName() or
\* GetEncoderClsid() fails; Save() is called and writes the file, or is
\* called and does not (its status is not looked at).
SaveOutcomes ==
  {"nodialog", "cancelled", "noresult", "nopath", "noencoder", "saved",
   "savefailed"}

\* Mutant: n counts the images saved, it is incremented after Save() only.
SaveBitmap_countsaved(outcome) ==
  /\ g_pMain.phase = "running"
  /\ save.n < MaxSave
  /\ save' =
       [n |-> IF outcome \in {"saved", "savefailed"} THEN save.n + 1
              ELSE save.n,
        name |-> IF outcome = "nodialog" THEN NoName
                 ELSE DefaultName(save.n),
        names |-> IF outcome = "nodialog" THEN save.names
                  ELSE Append(save.names, DefaultName(save.n)),
        saved |-> IF outcome = "saved" THEN save.saved + 1 ELSE save.saved,
        savedBefore |-> save.saved,
        outcome |-> outcome,
        hr |-> IF outcome \in {"saved", "savefailed"} THEN "S_OK"
               ELSE "E_FAIL"]
  /\ UNCHANGED <<m_nWidth, m_nHeight, m_nTile, pc, ci, cj, nGen, ctorW,
                 ctorH, order, ret, ub, logging, drawn, pending, feed,
                 startDiff, synced, everSolo, call, g_pMain>>

\* WM_COMMAND with IDM_FILE_SAVE: SaveBitmap(hWnd, g_pMain->GetBitmap()).
\* The name is made from n, and n is incremented, before anything else.
SaveBitmap(outcome) ==
  /\ g_pMain.phase = "running"
  /\ save.n < MaxSave
  /\ save' =
       [n |-> save.n + 1,
        name |-> IF outcome = "nodialog" THEN NoName
                 ELSE DefaultName(save.n),
        names |-> IF outcome = "nodialog" THEN save.names
                  ELSE Append(save.names, DefaultName(save.n)),
        saved |-> IF outcome = "saved" THEN save.saved + 1 ELSE save.saved,
        savedBefore |-> save.saved,
        outcome |-> outcome,
        hr |-> IF outcome \in {"saved", "savefailed"} THEN "S_OK"
               ELSE "E_FAIL"]
  /\ UNCHANGED <<m_nWidth, m_nHeight, m_nTile, pc, ci, cj, nGen, ctorW,
                 ctorH, order, ret, ub, logging, drawn, pending, feed,
                 startDiff, synced, everSolo, call, g_pMain>>

\* m_pWangTiler = new CWangTiler(16, 16), on a grid of one cell.
InitSave ==
  /\ Construct(1, 1)
  /\ logging = FALSE
  /\ call = NoCall
  /\ g_pMain = NoMain
  /\ save = NoSave

\* The constructor, then any number of File > Save commands.
NextSave ==
  \/ CMainCtor
  \/ g_pMain.phase = "generate" /\ GenerateOrigin(1)
  \/ GenerateDraw
  \/ \E outcome \in SaveOutcomes : SaveBitmap(outcome)

SpecSave == InitSave /\ [][NextSave]_vars

\* ====================================================== the claims
\* The colours of a tile, from its index (Table 2 of the documentation):
\* top = bit 2, left = bit 1, parity = bit 0, bottom = top XOR parity,
\* right = left XOR parity.  Computed by arithmetic, not by the operators
\* Match() is written with.
Bit0(v) == v % 2
Bit1(v) == (v \div 2) % 2
Bit2(v) == (v \div 4) % 2
Xor1(a, b) == (a + b) % 2
TopOf(v) == Bit2(v)
LeftOf(v) == Bit1(v)
BottomOf(v) == Xor1(Bit2(v), Bit0(v))
RightOf(v) == Xor1(Bit1(v), Bit0(v))

Rows(t) == 0..(m_nHeight[t] - 1)
Cols(t) == 0..(m_nWidth[t] - 1)

\* A call of Generate() on t has returned and no call is in progress.
Completed(t) == pc[t] = "idle" /\ nGen[t] >= 1

\* The cells of a w x h grid in row-major order.
RowMajor(w, h) == [k \in 1..(w * h) |-> <<(k - 1) \div w, (k - 1) % w>>]

IsPrefix(p, q) == Len(p) <= Len(q) /\ SubSeq(q, 1, Len(p)) = p

\* C1: after every completed Generate(), the left colour of every cell that
\* has a left neighbour equals the right colour of that neighbour.
C1_LeftMatchesRight ==
  \A t \in Tilers :
    Completed(t) =>
      \A i \in Rows(t) : \A j \in Cols(t) \ {0} :
        Bit1(m_nTile[t][i][j])
          = Xor1(Bit1(m_nTile[t][i][j - 1]), Bit0(m_nTile[t][i][j - 1]))

\* A second call has returned on a grid with inner cells, and some cell has a
\* left neighbour whose right colour differs from its left colour.
C1_Witness ==
  /\ Completed(1) /\ nGen[1] >= 2
  /\ m_nWidth[1] >= 3 /\ m_nHeight[1] >= 2
  /\ \E i \in Rows(1) \ {0} : \E j \in Cols(1) \ {0} :
       /\ Bit0(m_nTile[1][i][j - 1]) = 1
       /\ Bit1(m_nTile[1][i][j]) # Bit1(m_nTile[1][i][j - 1])

\* C2: after every completed Generate(), the top colour of every cell that
\* has a cell above equals the bottom colour of the cell above.
C2_TopMatchesBottom ==
  \A t \in Tilers :
    Completed(t) =>
      \A i \in Rows(t) \ {0} : \A j \in Cols(t) :
        Bit2(m_nTile[t][i][j])
          = Xor1(Bit2(m_nTile[t][i - 1][j]), Bit0(m_nTile[t][i - 1][j]))

\* A second call has returned on a grid with inner cells, and some inner cell
\* lies below a cell whose bottom colour differs from its top colour.
C2_Witness ==
  /\ Completed(1) /\ nGen[1] >= 2
  /\ m_nWidth[1] >= 2 /\ m_nHeight[1] >= 3
  /\ \E i \in Rows(1) \ {0} : \E j \in Cols(1) \ {0} :
       /\ Bit0(m_nTile[1][i - 1][j]) = 1
       /\ Bit2(m_nTile[1][i][j]) # Bit2(m_nTile[1][i - 1][j])

\* C3: in every reachable state (after construction, after each assignment
\* to a cell inside Generate(), after any number of calls) every cell holds
\* a value in 0..7.
C3_CellsInRange ==
  \A t \in Tilers : \A i \in Rows(t) : \A j \in Cols(t) :
    m_nTile[t][i][j] \in 0..7

\* Inside a second call, right after an inner cell was given the index 7.
C3_Witness ==
  /\ nGen[1] >= 1 /\ pc[1] = "inner" /\ cj[1] >= 2
  /\ m_nTile[1][ci[1]][cj[1] - 1] = 7

\* C4: for all x, y in 0..7 and b in 0..1, Match(x, y) with the drawn bit b
\* returns ((bit2(y) XOR bit0(y)) << 2) OR ((bit1(x) XOR bit0(x)) << 1) OR b;
\* left = 1 and above = 5 give 2 for b = 0 and 3 for b = 1.
C4_MatchFormula ==
  call.state = "returned" =>
    /\ call.z = 4 * Xor1(Bit2(call.y), Bit0(call.y))
                  + 2 * Xor1(Bit1(call.x), Bit0(call.x)) + call.b
    /\ (call.x = 1 /\ call.y = 5) => call.z = 2 + call.b

\* Match(1, 5) has returned 3, its bit being 1.
C4_Witness ==
  /\ call.state = "returned"
  /\ call.x = 1 /\ call.y = 5 /\ call.b = 1 /\ call.z = 3

\* C5: two instances of the same dimensions that took the same draws in all
\* their Generate() calls, however many, hold the same grid, cell for cell.
C5_SameDrawsSameGrid ==
  (~everSolo /\ pending = {}) => m_nTile[1] = m_nTile[2]

\* Both instances have completed two calls on the shared stream, on a 2 x 2
\* grid that is not the all-zero one.
C5_Witness ==
  /\ ~everSolo /\ pending = {}
  /\ nGen[1] = 2 /\ nGen[2] = 2
  /\ m_nWidth[1] = 2 /\ m_nHeight[1] = 2
  /\ m_nTile[2][1][1] = 5

\* The number of draws Generate() makes for the cell (i, j).
DrawsOf(i, j) ==
  IF i = 0 /\ j = 0 THEN 1 ELSE IF i = 0 \/ j = 0 THEN 2 ELSE 1

\* The number of draws made for the first k cells in row-major order.
RECURSIVE DrawsBefore(_, _)
DrawsBefore(w, k) ==
  IF k = 0 THEN 0
  ELSE DrawsBefore(w, k - 1) + DrawsOf((k - 1) \div w, (k - 1) % w)

\* The index the draws log give the k-th cell (k from 0) of the grid g of
\* width w, when they are read in row-major cell order, an edge cell taking
\* the index that stands for its missing neighbour first and its bit second.
FromDraws(g, w, log, k) ==
  LET i == k \div w
      j == k % w
      at == DrawsBefore(w, k)
  IN IF i = 0 /\ j = 0 THEN log[1]
     ELSE IF i = 0
       THEN 4 * BottomOf(log[at + 1]) + 2 * RightOf(g[0][j - 1]) + log[at + 2]
     ELSE IF j = 0
       THEN 4 * BottomOf(g[i - 1][0]) + 2 * RightOf(log[at + 1]) + log[at + 2]
     ELSE 4 * BottomOf(g[i - 1][j]) + 2 * RightOf(g[i][j - 1]) + log[at + 1]

\* C6: Generate() takes its draws in row-major cell order, the index that
\* stands for the missing neighbour of a cell of row 0 or column 0 before
\* that cell's bit; a 2 x 2 instance that draws 4, 6, 0, 2, 1, 1 ends with
\* the rows [4, 4] and [7, 5].
C6_DrawOrder ==
  \A t \in Tilers :
    /\ Len(drawn[t]) = DrawsBefore(m_nWidth[t], Len(order[t]))
    /\ \A k \in 0..(Len(order[t]) - 1) :
         /\ m_nTile[t][k \div m_nWidth[t]][k % m_nWidth[t]]
              = FromDraws(m_nTile[t], m_nWidth[t], drawn[t], k)
         /\ drawn[t][DrawsBefore(m_nWidth[t], k + 1)]
              \in (IF k = 0 THEN 0..7 ELSE 0..1)
    /\ (/\ Completed(t) /\ m_nWidth[t] = 2 /\ m_nHeight[t] = 2
        /\ drawn[t] = <<4, 6, 0, 2, 1, 1>>)
         => m_nTile[t] = [i \in 0..1 |->
                            IF i = 0 THEN [j \in 0..1 |-> 4]
                            ELSE [j \in 0..1 |-> IF j = 0 THEN 7 ELSE 5]]

\* A 2 x 2 instance has completed a call in which it drew 4, 6, 0, 2, 1, 1.
C6_Witness ==
  /\ Completed(1) /\ m_nWidth[1] = 2 /\ m_nHeight[1] = 2
  /\ drawn[1] = <<4, 6, 0, 2, 1, 1>>
  /\ m_nTile[1][1][0] = 7 /\ m_nTile[1][1][1] = 5

\* C7: a width or a height of 0 is rejected at construction, so Generate()
\* never runs on an instance with a zero-sized grid.
C7_ZeroSizeRejected ==
  \A t \in Tilers :
    (m_nWidth[t] = 0 \/ m_nHeight[t] = 0) => (nGen[t] = 0 /\ ~ub[t])

\* C8: GetWidth() and GetHeight() return the w and the h given to the
\* constructor, in every state; Generate() changes neither dimension.
C8_DimensionsFixed ==
  \A t \in Tilers :
    /\ m_nWidth[t] = ctorW[t]
    /\ m_nHeight[t] = ctorH[t]
    /\ ret[t].kind = "width" => ret[t].val = ctorW[t]
    /\ ret[t].kind = "height" => ret[t].val = ctorH[t]

\* GetWidth() has returned 3 on a 3 x 2 instance after two Generate() calls.
C8_Witness ==
  /\ nGen[1] >= 2 /\ ctorW[1] = 3 /\ ctorH[1] = 2
  /\ ret[1].kind = "width" /\ ret[1].val = 3

\* C9: two instances of equal size that begin Generate() with different
\* grids and take the same draws end with the same grid, every cell of
\* both having been assigned by the call.
C9_PriorContentsIrrelevant ==
  synced =>
    /\ m_nTile[1] = m_nTile[2]
    /\ \A t \in Tilers :
         {order[t][k] : k \in 1..Len(order[t])} = Rows(t) \X Cols(t)

\* Both instances have finished a call on the shared stream that they began
\* with different grids, on a grid with an inner cell.
C9_Witness ==
  /\ synced /\ startDiff
  /\ m_nWidth[1] = 2 /\ m_nHeight[1] = 2

\* C10: within one Generate() call the cells are assigned in row-major
\* order, and when the call returns each of the w*h cells has been assigned
\* exactly once.
C10_RowMajorOnce ==
  \A t \in Tilers :
    /\ IsPrefix(order[t], RowMajor(m_nWidth[t], m_nHeight[t]))
    /\ Completed(t) => order[t] = RowMajor(m_nWidth[t], m_nHeight[t])
    /\ pc[t] \in {"row0", "col0", "inner"} =>
         /\ Len(order[t]) < m_nWidth[t] * m_nHeight[t]
         /\ <<ci[t], cj[t]>>
              = RowMajor(m_nWidth[t], m_nHeight[t])[Len(order[t]) + 1]

\* A second call has returned on a 3 x 2 grid.
C10_Witness ==
  /\ Completed(1) /\ nGen[1] >= 2
  /\ m_nWidth[1] = 3 /\ m_nHeight[1] = 2
  /\ order[1] = << <<0, 0>>, <<0, 1>>, <<0, 2>>, <<1, 0>>, <<1, 1>>, <<1, 2>> >>

\* C11: on a grid with w, h >= 1 and whatever the draws, a Generate() call
\* that was entered returns, after at most w * h assignments to cells, and
\* neither stops the process nor writes outside the grid.
C11_Terminates ==
  /\ [](/\ pc[1] # "crashed" /\ ~ub[1]
        /\ Len(order[1]) <= m_nWidth[1] * m_nHeight[1])
  /\ (pc[1] # "idle") ~> (pc[1] = "idle")

\* A second call has returned on a 2 x 2 grid, four cells after it began.
C11_Witness ==
  /\ Completed(1) /\ nGen[1] = 2
  /\ m_nWidth[1] = 2 /\ m_nHeight[1] = 2
  /\ Len(order[1]) = 4 /\ ~ub[1]

\* The tile indexes with top colour t and left colour l.
Matching(t, l) == {v \in TileIndex : TopOf(v) = t /\ LeftOf(v) = l}

\* C12: for every top colour t and left colour l exactly two of the eight
\* tile indexes have top t and left l, and the values Match() can return
\* for a tile above with bottom t and a tile to the left with right l, over
\* both values of its bit, are exactly those two.
C12_TwoMatchingTiles ==
  /\ \A t \in Bit, l \in Bit : Cardinality(Matching(t, l)) = 2
  /\ call.state = "returned" =>
       LET M == Matching(BottomOf(call.y), RightOf(call.x))
       IN /\ call.z \in M
          /\ {Match(call.x, call.y, b) : b \in Bit} = M

\* Match(3, 6) has returned 5, the odd one of the two tiles with top 1 and
\* left 0.
C12_Witness ==
  /\ call.state = "returned"
  /\ call.x = 3 /\ call.y = 6 /\ call.b = 1 /\ call.z = 5
  /\ Matching(1, 0) = {4, 5}

\* --------------------------------- the tile set of the documentation
\* The 4-bit column of Table 1 (top, left, bottom, right; green = 0, red = 1,
\* blue = 0, yellow = 1), by index: GBGB, GBRY, GYGY, GYRB, RBRB, RBGY,
\* RYRY, RYGB.
Table1FourBit == [v \in TileIndex |-> <<0, 3, 5, 6, 10, 9, 15, 12>>[v + 1]]

\* The bits x3 (top), x2 (left), x1 (bottom), x0 (right) of a 4-bit form.
WordTop(x) == (x \div 8) % 2
WordLeft(x) == (x \div 4) % 2
WordBottom(x) == (x \div 2) % 2
WordRight(x) == x % 2

\* Mutant: the parity bit is the exclusive-or of the left and bottom
\* colours, x2 XOR x1.
IndexFromFourBit_leftbottom(x) ==
  4 * WordTop(x) + 2 * WordLeft(x) + Xor1(WordLeft(x), WordBottom(x))

\* Table 1, columns 3 to 6: the index of the tile with the 4-bit form x is
\* x3 x2 followed by the parity bit x3 XOR x1.
IndexFromFourBit(x) ==
  4 * WordTop(x) + 2 * WordLeft(x) + Xor1(WordTop(x), WordBottom(x))

\* Mutant: the right colour is the left colour, whatever the parity.
FourBitFromIndex_rightkept(v) ==
  8 * Bit2(v) + 4 * Bit1(v) + 2 * Xor1(Bit2(v), Bit0(v)) + Bit1(v)

\* Table 2, columns 2 to 7: the 4-bit form of the tile with index y2 y1 y0
\* is y2, y1, y2 XOR y0, y1 XOR y0.
FourBitFromIndex(v) ==
  8 * Bit2(v) + 4 * Bit1(v) + 2 * Xor1(Bit2(v), Bit0(v))
    + Xor1(Bit1(v), Bit0(v))

\* The colours of the tile Match() returned are looked up (Table 2).
TileColors ==
  /\ call.state = "returned"
  /\ call' = [x |-> call.x, y |-> call.y, b |-> call.b, z |-> call.z,
              state |-> "colors", word |-> FourBitFromIndex(call.z)]
  /\ UNCHANGED tilerVars

\* The index of the tile with those colours is looked up (Table 1).
TileIndexOf ==
  /\ call.state = "colors"
  /\ call' = [x |-> call.x, y |-> call.y, b |-> call.b, z |-> call.z,
              state |-> "index", word |-> call.word,
              index |-> IndexFromFourBit(call.word)]
  /\ UNCHANGED tilerVars

NextTable ==
  \/ MatchReturn
  \/ TileColors
  \/ TileIndexOf

SpecTable == InitMatch /\ [][NextTable]_vars

\* The indexes of the tiles with top colour t and left colour l in Table 1.
Table1Matching(t, l) ==
  {v \in TileIndex : /\ WordTop(Table1FourBit[v]) = t
                     /\ WordLeft(Table1FourBit[v]) = l}

\* C13: of the two tiles with the top and left colours of a given tile, the
\* one with parity bit 0 has its bottom colour equal to its top colour and
\* its right colour equal to its left colour, and the one with parity bit 1
\* has both flipped; so top XOR bottom = left XOR right for every tile.
C13_ParityFlipsBoth ==
  call.state \in {"colors", "index"} =>
    LET M == Table1Matching(WordTop(call.word), WordLeft(call.word))
    IN /\ M = Matching(WordTop(call.word), WordLeft(call.word))
       /\ call.z \in M
       /\ \A v \in M :
            LET c == FourBitFromIndex(v)
            IN /\ c = Table1FourBit[v]
               /\ Bit0(v) = 0 => /\ WordBottom(c) = WordTop(c)
                                 /\ WordRight(c) = WordLeft(c)
               /\ Bit0(v) = 1 => /\ WordBottom(c) # WordTop(c)
                                 /\ WordRight(c) # WordLeft(c)
       /\ {Bit0(v) : v \in M} = {0, 1}
       /\ Xor1(WordTop(call.word), WordBottom(call.word))
            = Xor1(WordLeft(call.word), WordRight(call.word))

\* The colours of tile 7 (RYGB), which Match(2, 4) returned, have been
\* looked up: top red, left yellow, both flipped to bottom green, right
\* blue.
C13_Witness ==
  /\ call.state = "colors" /\ call.x = 2 /\ call.y = 4 /\ call.z = 7
  /\ call.word = 12

\* C14: for every index, the four colours found from the index (top = bit
\* 2, left = bit 1, bottom = bit 2 XOR bit 0, right = bit 1 XOR bit 0) and
\* encoded again as top, left, top XOR bottom give the index back; the eight
\* 4-bit forms are pairwise distinct and are those of Table 1: 0000, 0011,
\* 0101, 0110, 1010, 1001, 1111, 1100.
C14_IndexRoundTrip ==
  /\ call.state \in {"colors", "index"} =>
       /\ call.word = Table1FourBit[call.z]
       /\ WordTop(call.word) = Bit2(call.z)
       /\ WordLeft(call.word) = Bit1(call.z)
       /\ WordBottom(call.word) = Xor1(Bit2(call.z), Bit0(call.z))
       /\ WordRight(call.word) = Xor1(Bit1(call.z), Bit0(call.z))
       /\ \A v \in TileIndex \ {call.z} : FourBitFromIndex(v) # call.word
  /\ call.state = "index" => call.index = call.z
  /\ \A v \in TileIndex : IndexFromFourBit(Table1FourBit[v]) = v
  /\ \A u \in TileIndex, v \in TileIndex :
       u # v => Table1FourBit[u] # Table1FourBit[v]

\* Tile 5 (RBGY, 1001), which Match(3, 1) returned, has been decoded to
\* 1001 and encoded back to 5.
C14_Witness ==
  /\ call.state = "index" /\ call.x = 3 /\ call.y = 1 /\ call.z = 5
  /\ call.word = 9 /\ call.index = 5

\* The cells of row 0 or column 0, the origin apart, among the first n
\* cells the call assigned.
EdgeCells(t, n) ==
  {k \in 2..n : order[t][k][1] = 0 \/ order[t][k][2] = 0}

\* C15: Generate() draws one index for the origin, one index and the bit of
\* Match() for every other cell of row 0 or column 0, and the bit of
\* Match() alone for an inner cell: w*h + w + h - 2 draws for a whole call.
C15_DrawCount ==
  \A t \in Tilers :
    LET n == Len(order[t])
    IN /\ Len(drawn[t]) = n + Cardinality(EdgeCells(t, n))
       /\ n >= 2 => drawn[t][Len(drawn[t])] \in Bit
       /\ Completed(t) =>
            Len(drawn[t]) = m_nWidth[t] * m_nHeight[t]
                              + m_nWidth[t] + m_nHeight[t] - 2

\* A call has returned on a 2 x 2 grid after 6 draws for its 4 cells.
C15_Witness ==
  /\ Completed(1) /\ m_nWidth[1] = 2 /\ m_nHeight[1] = 2
  /\ Len(drawn[1]) = 6 /\ Len(order[1]) = 4

\* C16: the missing neighbour of a cell of row 0 (j > 0) or of column 0
\* (i > 0) is a fresh draw in 0..7: whatever the one neighbour the cell has,
\* each of the four indexes whose constrained side matches that neighbour
\* can be assigned to the cell, and the index assigned matches that
\* neighbour.
C16_EdgeCellsFree ==
  /\ pc[1] = "row0" =>
       \A v \in Matching(0, RightOf(m_nTile[1][0][cj[1] - 1]))
                  \cup Matching(1, RightOf(m_nTile[1][0][cj[1] - 1])) :
         ENABLED (GenerateRow0(1) /\ m_nTile'[1][0][cj[1]] = v)
  /\ pc[1] = "col0" =>
       \A v \in Matching(BottomOf(m_nTile[1][ci[1] - 1][0]), 0)
                  \cup Matching(BottomOf(m_nTile[1][ci[1] - 1][0]), 1) :
         ENABLED (GenerateCol0(1) /\ m_nTile'[1][ci[1]][0] = v)
  /\ Len(order[1]) >= 2 =>
       LET c == order[1][Len(order[1])]
           v == m_nTile[1][c[1]][c[2]]
       IN /\ (c[1] = 0 /\ c[2] > 0) =>
               LeftOf(v) = RightOf(m_nTile[1][0][c[2] - 1])
          /\ (c[2] = 0 /\ c[1] > 0) =>
               TopOf(v) = BottomOf(m_nTile[1][c[1] - 1][0])

\* The cell (1, 0) has just been given 3, below a 0 whose bottom colour is
\* green: its left colour is yellow, where a missing neighbour of index 0
\* would have made it blue.
C16_Witness ==
  /\ Len(order[1]) >= 2 /\ order[1][Len(order[1])] = <<1, 0>>
  /\ m_nTile[1][0][0] = 0 /\ m_nTile[1][1][0] = 3

\* C17: the cell (0, 0) holds the first draw of the call as it was drawn,
\* from the first assignment of the call on, and a call can begin with any
\* of the eight indexes at the origin.
C17_OriginIsFirstDraw ==
  /\ Len(order[1]) >= 1 =>
       /\ order[1][1] = <<0, 0>>
       /\ Len(drawn[1]) >= 1
       /\ m_nTile[1][0][0] = drawn[1][1]
  /\ (pc[1] = "idle" /\ nGen[1] < MaxGen) =>
       \A v \in TileIndex :
         ENABLED (GenerateOrigin(1) /\ m_nTile'[1][0][0] = v)

\* A second call on a 2 x 2 grid has drawn 7 first and has gone on to the
\* second row; the origin holds 7, which Match() cannot give after a left
\* neighbour 7 or below a 7.
C17_Witness ==
  /\ nGen[1] = 1 /\ pc[1] = "inner"
  /\ m_nWidth[1] = 2 /\ m_nHeight[1] = 2
  /\ drawn[1][1] = 7 /\ m_nTile[1][0][0] = 7

\* C18: between construction and the first Generate() call every cell
\* (i, j) with i < h and j < w reads as 0.
C18_ZeroBeforeGenerate ==
  \A t \in Tilers :
    (nGen[t] = 0 /\ pc[t] = "idle") =>
      /\ \A i \in Rows(t) : \A j \in Cols(t) : m_nTile[t][i][j] = 0
      /\ ret[t].kind = "tile" => ret[t].val = 0

\* operator()(1, 1) has returned 0 on a 2 x 2 instance never generated.
C18_Witness ==
  /\ nGen[1] = 0 /\ pc[1] = "idle"
  /\ m_nWidth[1] = 2 /\ m_nHeight[1] = 2
  /\ ret[1].kind = "tile" /\ ret[1].i = 1 /\ ret[1].j = 1 /\ ret[1].val = 0

\* C19: only Generate() changes the grid; operator()(i, j), GetWidth() and
\* GetHeight() leave the cells, the dimensions and the random stream as they
\* were, and operator()(i, j) returns what Generate() last put in row i,
\* column j.
C19_AccessorsReadOnly ==
  /\ [][/\ (ret' # ret /\ ret'[1].kind # "none") =>
             UNCHANGED <<m_nTile, m_nWidth, m_nHeight, drawn, feed, order,
                         nGen, pc, ci, cj>>
        /\ (m_nTile' # m_nTile \/ drawn' # drawn) =>
             (pc[1] # "idle" \/ pc'[1] # "idle" \/ nGen'[1] = nGen[1] + 1)
       ]_vars
  /\ [](ret[1].kind = "tile" =>
          /\ pc[1] = "idle"
          /\ ret[1].val = m_nTile[1][ret[1].i][ret[1].j])

\* After two calls on a 2 x 2 instance, operator()(1, 1) has returned the
\* 5 the second call put there, next to a cell holding something else.
C19_Witness ==
  /\ nGen[1] = 2 /\ pc[1] = "idle"
  /\ m_nWidth[1] = 2 /\ m_nHeight[1] = 2
  /\ ret[1].kind = "tile" /\ ret[1].i = 1 /\ ret[1].j = 1 /\ ret[1].val = 5
  /\ m_nTile[1][1][1] = 5 /\ m_nTile[1][1][0] # 5

C21_TilesetKeepsGrid ==
  [][/\ (g_pMain.phase = "running" /\ g_pMain'.phase = "running") =>
          /\ UNCHANGED <<m_nTile, m_nWidth, m_nHeight, pc, nGen, order>>
          /\ g_pMain'.shown =
               {g_pMain'.m_pTile[m_nTile[1][i][j]] :
                  i \in Rows(1), j \in Cols(1)}
     /\ (m_nTile' # m_nTile /\ g_pMain.shown # {}) =>
          /\ g_pMain.phase = "generate" /\ g_pMain.gen0 >= 1
          /\ pc[1] # "idle" \/ pc'[1] # "idle" \/ nGen'[1] = nGen[1] + 1
    ]_vars

\* The flower tiles have been loaded and drawn over a 2 x 2 tiling made by
\* the constructor, which is still in the grid.
C21_Witness ==
  /\ g_pMain.phase = "running" /\ g_pMain.hr = "S_OK"
  /\ g_pMain.idm = "IDM_TILESET_FLOWER"
  /\ g_pMain.shown = {"IDM_TILESET_FLOWER"}
  /\ nGen[1] = 1 /\ m_nWidth[1] = 2 /\ m_nHeight[1] = 2
  /\ m_nTile[1][1][1] = 6

\* The number a default file name ends with.
RECURSIVE FromDigits(_)
FromDigits(ds) ==
  IF ds = <<>> THEN 0
  ELSE 10 * FromDigits(SubSeq(ds, 1, Len(ds) - 1)) + ds[Len(ds)]

\* C22: the default file name a SaveBitmap() call offers is Image<N>, with
\* N the number of images saved so far in this run of the program.
C22_NameCountsSaved ==
  save.name # NoName =>
    /\ save.name.stem = "Image"
    /\ FromDigits(save.name.digits) = save.savedBefore

C24_AccessesInBounds ==
  /\ m_nWidth[1] >= 1 /\ m_nHeight[1] >= 1
  /\ DOMAIN m_nTile[1] = Rows(1)
  /\ \A i \in Rows(1) : DOMAIN m_nTile[1][i] = Cols(1)
  /\ <<0, 0>> \in Rows(1) \X Cols(1)
  /\ CellsRead(1) \cup CellWritten(1) \subseteq Rows(1) \X Cols(1)
  /\ \A k \in 1..Len(order[1]) : order[1][k] \in Rows(1) \X Cols(1)
  /\ ~ub[1] /\ pc[1] # "crashed"

\* Generate() is about to assign the last cell of a grid of one column and
\* three rows, for which it reads the cell above.
C24_Witness ==
  /\ m_nWidth[1] = 1 /\ m_nHeight[1] = 3
  /\ pc[1] = "col0" /\ ci[1] = 2
  /\ CellsRead(1) = {<<1, 0>>} /\ CellWritten(1) = {<<2, 0>>}

\* C25: RandomTile(x, y) of the CRandom-based version, x being the index
\* of the tile to the left and y that of the tile above, returns a tile
\* whose left colour is the right colour of x and whose top colour is the
\* bottom colour of y, for all x, y in 0..7.
C25_RandomTileMatches ==
  call.state = "returned" =>
    /\ LeftOf(call.z) = RightOf(call.x)
    /\ TopOf(call.z) = BottomOf(call.y)

\* C26: a LoadTileSet() call in which one of the n images does not load
\* returns E_FAIL; when n is the number of tiles already loaded it leaves
\* every tile of m_pTile and every checkmark of the Tileset menu as they
\* were, and the Draw() that follows, like every later one, draws the tiles
\* of the tile set loaded last with success.  In the constructor, where no
\* tile is loaded yet, the failure ends the application.
C26_FailedLoadKeepsTileset ==
  [][/\ g_pMain.phase \in {"start", "running"} =>
          \A idm \in TilesetItems, fail \in 0..(NumTiles - 1) :
            LET m == LoadTileSet(g_pMain, idm, NumTiles, fail)
            IN /\ m.hr = "E_FAIL"
               /\ g_pMain.m_nNumTiles = NumTiles =>
                    /\ m.m_pTile = g_pMain.m_pTile
                    /\ m.checked = g_pMain.checked
     /\ (/\ g_pMain.phase = "running" /\ g_pMain'.phase = "running"
         /\ g_pMain'.hr = "E_FAIL") =>
          /\ g_pMain.m_nNumTiles = NumTiles
          /\ g_pMain'.m_nNumTiles = NumTiles
          /\ g_pMain'.m_pTile = g_pMain.m_pTile
          /\ g_pMain'.checked = g_pMain.checked
          /\ g_pMain'.lastOk = g_pMain.lastOk
          /\ g_pMain'.shown = {g_pMain.lastOk}
     /\ (g_pMain.phase = "start" /\ g_pMain'.hr = "E_FAIL") =>
          g_pMain'.phase = "exited"
     /\ (g_pMain'.phase = "running" /\ g_pMain'.hr = "E_FAIL") =>
          /\ g_pMain'.shown = {g_pMain'.lastOk}
          /\ \A i \in 0..(NumTiles - 1) :
               g_pMain'.m_pTile[i] = g_pMain'.lastOk
    ]_vars

\* The grass tiles were loaded, then one of the mud images failed to load:
\* Grass is still checked and the grass tiles are still drawn, also after a
\* second Generate().
C26_Witness ==
  /\ g_pMain.phase = "running"
  /\ g_pMain.hr = "E_FAIL" /\ g_pMain.idm = "IDM_TILESET_MUD"
  /\ g_pMain.lastOk = "IDM_TILESET_GRASS"
  /\ g_pMain.checked = {"IDM_TILESET_GRASS"}
  /\ g_pMain.shown = {"IDM_TILESET_GRASS"}
  /\ \A i \in 0..(NumTiles - 1) : g_pMain.m_pTile[i] = "IDM_TILESET_GRASS"

\* The cells the Generate() call in progress on t has assigned so far.
AssignedNow(t) == {order[t][k] : k \in 1..Len(order[t])}

\* C27: at every step inside a Generate() call, any two cells next to each
\* other, side by side or one above the other, that the call has both
\* assigned already have the same colour on the edge they share.
C27_AssignedCellsMatch ==
  \A t \in Tilers :
    pc[t] # "idle" =>
      \A c \in AssignedNow(t) : \A e \in AssignedNow(t) :
        /\ (e[1] = c[1] /\ e[2] = c[2] + 1) =>
             RightOf(m_nTile[t][c[1]][c[2]]) = LeftOf(m_nTile[t][e[1]][e[2]])
        /\ (e[2] = c[2] /\ e[1] = c[1] + 1) =>
             BottomOf(m_nTile[t][c[1]][c[2]]) = TopOf(m_nTile[t][e[1]][e[2]])

\* Inside a second call on a grid three cells wide, row 0 and the first two
\* cells of row 1 are assigned, the third is not, and the cell below (0,2)
\* still holds a tile of the first call that does not match it.
C27_Witness ==
  /\ nGen[1] = 1 /\ pc[1] = "inner" /\ ci[1] = 1 /\ cj[1] = 2
  /\ m_nWidth[1] = 3 /\ Len(order[1]) = 5
  /\ <<1, 1>> \in AssignedNow(1) /\ <<1, 2>> \notin AssignedNow(1)
  /\ BottomOf(m_nTile[1][0][2]) # TopOf(m_nTile[1][1][2])
  /\ RightOf(m_nTile[1][1][0]) = 1 /\ BottomOf(m_nTile[1][0][1]) = 1

\* C28: whenever no Generate() call is in progress, after the constructor
\* as after any number of calls, every cell with a left neighbour has that
\* neighbour's right colour on its left edge and every cell with a cell
\* above has that cell's bottom colour on its top edge; the grid of zeros
\* the constructor leaves is such a tiling.
C28_IdleGridMatches ==
  \A t \in Tilers :
    pc[t] = "idle" =>
      /\ \A i \in Rows(t) : \A j \in Cols(t) :
           /\ j >= 1 => LeftOf(m_nTile[t][i][j]) = RightOf(m_nTile[t][i][j - 1])
           /\ i >= 1 => TopOf(m_nTile[t][i][j]) = BottomOf(m_nTile[t][i - 1][j])
      /\ nGen[t] = 0 => m_nTile[t] = NewTiles(m_nWidth[t], m_nHeight[t])

\* Right after the construction of a 2 x 3 grid: no call was made, every
\* cell is 0 and has colour 0 on its four edges.
C28_Witness ==
  /\ pc[1] = "idle" /\ nGen[1] = 0 /\ order[1] = <<>>
  /\ m_nWidth[1] = 3 /\ m_nHeight[1] = 2
  /\ \A i \in Rows(1) : \A j \in Cols(1) :
       /\ m_nTile[1][i][j] = 0
       /\ TopOf(0) = 0 /\ LeftOf(0) = 0 /\ BottomOf(0) = 0 /\ RightOf(0) = 0

\* The grid call.grid has matching colours on every shared edge.
GoalMatches ==
  \A i \in Rows(1) : \A j \in Cols(1) :
    /\ j >= 1 => LeftOf(call.grid[i][j]) = RightOf(call.grid[i][j - 1])
    /\ i >= 1 => TopOf(call.grid[i][j]) = BottomOf(call.grid[i - 1][j])

\* C29: every w x h grid over 0..7 with matching edges is the result of
\* Generate() for some sequence of draws, and no other grid is: when the
\* draws are chosen so as to give each cell the index of a fixed grid, the
\* call can take its next step until it returns with that grid if the grid
\* has matching edges, and never returns if it has not.
C29_EveryMatchingGridGenerated ==
  /\ \A c \in AssignedNow(1) : m_nTile[1][c[1]][c[2]] = call.grid[c[1]][c[2]]
  /\ GoalMatches =>
       /\ (pc[1] # "idle" \/ nGen[1] < MaxGen) => ENABLED NextGoal
       /\ Completed(1) => m_nTile[1] = call.grid
  /\ ~GoalMatches => ~Completed(1)

\* Generate() has returned with the 2 x 2 grid 7 4 / 3 5 it was to produce.
C29_Witness ==
  /\ Completed(1) /\ m_nWidth[1] = 2 /\ m_nHeight[1] = 2
  /\ GoalMatches /\ m_nTile[1] = call.grid
  /\ call.grid[0][0] = 7 /\ call.grid[0][1] = 4
  /\ call.grid[1][0] = 3 /\ call.grid[1][1] = 5

====
